---- MODULE Spec2Model ----
(***************************************************************************)
(* Contest proctoring engine: the GitHub sync scheduler and the source     *)
(* analysis records (cron/githubSync.js, routes/github-monitor.js,         *)
(* models/GitHubAnalysis.js), the event ingest pipeline (routes/events.js, *)
(* middleware/auth.js, utils/suspicionCalculator.js) and the editor        *)
(* agent's upload queue (extension.js).                                    *)
(*                                                                         *)
(* Scores and similarities are fixed-point numbers in thousandths          *)
(* (0.85 is 850): the code rounds every score to three decimals.           *)
(* The server is a single-threaded event loop: the code between two        *)
(* awaits is one atomic step, and every await is a step boundary.          *)
(***************************************************************************)
EXTENDS Integers, Sequences, FiniteSets, TLC

VARIABLES
  isRunning,   \* githubSync.js: _isRunning
  cyc,         \* the runSync invocations in flight, per invocation slot
  mon,         \* the monitorRepository invocations in flight, per caller
  xc,          \* the comparison jobs in flight (runCrossComparison, compareRepositories)
  analyses,    \* the GitHubAnalysis collection, per participant id
  sched,       \* the triggers fired so far, and those of them skipped
  participants,  \* the Participant collection, per machineId
  eventRows,     \* the Event collection: the number of rows, per machineId
  patterns,      \* the TypingPattern collection: the stored intervals, per machineId
  reqs,          \* the POST /api/events requests in flight, per request slot
  hits,          \* participantLimiter: the hits of the current window, per key
  verdict,       \* participantLimiter: what it did with the last request, per key
  arrived,       \* POST /api/events requests received so far
  responses,     \* responses sent so far, per status code
  lastError,     \* the step whose failure the handler's catch block logged last
  emitted,       \* frames emitted to the dashboard room, per event name
  received,      \* the frames each socket has received, per event name and machineId
  accepted,      \* the events of the batches answered 200, per machineId
  sockets,       \* server.js: the connected sockets, what they presented, their rooms
  queue,         \* extension.js EventQueue: _queue
  typingPattern, \* EventQueue: the length of _typingPattern
  uploading,     \* EventQueue: _uploading
  retryCount,    \* EventQueue: _retryCount
  flight,        \* the flush() invocation in flight: its position, batch and snapshot
  pushed,        \* the timestamps of the events pushed so far
  typed,         \* the typing intervals recorded so far
  persisted,     \* the timestamps of the agent's events the server has stored
  pushOrder,     \* the events pushed so far, in the order of the pushes
  uploaded,      \* the timestamps of the events of the batches whose upload resolved
  participantDoc,  \* events.js: a participant document in memory
  lastEvent,       \* the event the loop of the handler applied to it last
  analysisDoc,     \* GitHubAnalysis.js: an analysis document in memory
  commits,         \* the dates (ms) of a repository's commits, oldest first
  timingAnalysis,  \* what analyzeTimingDistribution returned for them
  scoring,         \* a call of calculateEventSuspicion: its arguments and result
  repo,            \* a participant's repository: its commits, oldest first
  clock,           \* the server's time, what new Date() returns
  record,          \* the stored analysis record of that repository
  run,             \* the monitorRepository invocation in flight on it
  windows,         \* per commit, the runs that analysed and saved it (up to 2)
  faults           \* the failures of the remote and of the store so far

syncVars == <<isRunning, cyc, mon, xc, analyses, sched>>
ingestVars ==
  <<participants, eventRows, patterns, reqs, hits, verdict, arrived, responses,
    lastError, emitted, received, accepted>>
agentVars ==
  <<queue, typingPattern, uploading, retryCount, flight, pushed, typed, persisted,
    pushOrder, uploaded>>
calcVars ==
  <<participantDoc, lastEvent, analysisDoc, commits, timingAnalysis, scoring>>
repoVars == <<repo, clock, record, run, windows, faults>>
notSync == <<ingestVars, agentVars, sockets, calcVars, repoVars>>
notIngest == <<syncVars, agentVars, sockets, calcVars, repoVars>>
notAgent == <<syncVars, ingestVars, sockets, calcVars, repoVars>>
notLive == <<syncVars, ingestVars, agentVars, calcVars, repoVars>>
notCalc == <<syncVars, ingestVars, agentVars, sockets, repoVars>>
notRepo == <<syncVars, ingestVars, agentVars, sockets, calcVars>>
vars == <<syncVars, ingestVars, agentVars, sockets, calcVars, repoVars>>

----------------------------------------------------------------------------
(* Bounds of the model *)

MaxTriggers == 2     \* runSync triggers (cron ticks and the startup run)
MaxMatches == 2      \* similarity matches recorded per analysis record
MaxRequests == 3     \* POST /api/events requests received
MaxHits == 102       \* requests of one key seen by the limiter in a window

Participants == {1, 2}     \* participants with a registered repository
Slots == {1, 2}            \* runSync invocations that may be in flight
ManualCaller == 0          \* the POST /sync/:id request
CompareCaller == 0         \* the POST /compare request
MonCallers == Slots \cup {ManualCaller}
XcCallers == Slots \cup {CompareCaller}

\* What the analysis of a repository's new commits reports:
\* <<avgScore, number of idle bursts>>.
AnalysisResults == {<<0, 0>>, <<400, 1>>}
Sims == {0, 800, 1000}  \* similarity of a pair of repositories' files
Thresholds == {800, 900}   \* threshold a POST /compare caller may pass
DefaultThreshold == 800

Min(a, b) == IF a < b THEN a ELSE b
Max(a, b) == IF a > b THEN a ELSE b

RECURSIVE SeqMax(_)
SeqMax(s) == IF s = <<>> THEN 0 ELSE Max(Head(s), SeqMax(Tail(s)))

Range(s) == {s[i] : i \in 1 .. Len(s)}

----------------------------------------------------------------------------
(* models/GitHubAnalysis.js *)

\* A new document: the schema defaults.
NewAnalysis ==
  [ exists |-> TRUE,
    avgCommitSuspicionScore |-> 0,
    idleBursts |-> 0,
    similarityMatches |-> <<>>,
    highestSimilarity |-> 0,
    githubSuspicionScore |-> 0 ]

NoAnalysis == [NewAnalysis EXCEPT !.exists = FALSE]

\* Math.round(x * 1000) / 1000 for x given in units of 1e-5.
round3(x) == (x + 50) \div 100

\* Weight 3 of recalculateSuspicion, in units of 1e-5.
plagiarismContribution(hs) ==
  IF hs > 800 THEN 40000 ELSE IF hs > 500 THEN hs * 30 ELSE 0

\* recalculateSuspicion: the score of a document's sub-signals.
recalculateSuspicion(doc) ==
  Min( round3( (IF doc.avgCommitSuspicionScore > 0
                  THEN doc.avgCommitSuspicionScore * 35 ELSE 0)
             + (IF doc.idleBursts > 0
                  THEN Min(doc.idleBursts * 10000, 25000) ELSE 0)
             + plagiarismContribution(doc.highestSimilarity) ),
       1000 )

\* A similarity match entry as one side of a flagged file pair stores it.
matchEntry(other, f1, f2, sim) ==
  [ otherParticipantId |-> other, file1 |-> f1, file2 |-> f2, similarity |-> sim ]

pushMatchSet(doc, m) ==
  IF ~doc.exists THEN doc
  ELSE [doc EXCEPT !.similarityMatches = Append(@, m),
                   !.highestSimilarity = m.similarity]

\* findOneAndUpdate({participantId}, {$push: {similarityMatches}, $max:
\* {highestSimilarity}}): one atomic store update; no document, no change.
pushMatch(doc, m) ==
  IF ~doc.exists THEN doc
  ELSE [doc EXCEPT !.similarityMatches = Append(@, m),
                   !.highestSimilarity = Max(@, m.similarity)]

\* A loaded document as the code uses it: the match list of a document in
\* memory is neither read nor modified.
inMemory(doc) == [doc EXCEPT !.similarityMatches = <<>>]

NoChanges == [f \in {} |-> 0]

\* The modified paths of a document in memory, with their new values: the
\* paths the code assigned a value that differs from the loaded one. A
\* document that was not loaded but constructed is new as a whole.
modifiedPaths(loaded, doc) ==
  IF ~loaded.exists THEN doc
  ELSE [f \in {g \in {"avgCommitSuspicionScore", "idleBursts",
                      "githubSuspicionScore"} : doc[g] # loaded[g]} |-> doc[f]]

\* doc.save(): the modified paths are written to the stored document, the
\* other paths keep their stored value; a new document is inserted.
saveModified(stored, changes) ==
  IF "exists" \in DOMAIN changes THEN changes
  ELSE IF ~stored.exists THEN stored
  ELSE [f \in DOMAIN stored |->
          IF f \in DOMAIN changes THEN changes[f] ELSE stored[f]]

----------------------------------------------------------------------------
(* utils/similarity.js: crossCompareRepos over the repositories that have  *)
(* code files, each repository holding one comparable file                 *)

RepoPairs == {pr \in Participants \X Participants : pr[1] < pr[2]}

\* The pairs (i, j), i < j, of positions of a list, in the order of the
\* two nested loops.
RECURSIVE pairsFrom(_, _, _)
pairsFrom(n, i, j) ==
  IF i >= n THEN <<>>
  ELSE IF j > n THEN pairsFrom(n, i + 1, i + 2)
  ELSE <<(<<i, j>>)>> \o pairsFrom(n, i, j + 1)

\* compareCode of the files of two repositories, files being the fetched
\* contents given by the similarity of each pair.
pairSim(files, a, b) == IF a < b THEN files[<<a, b>>] ELSE files[<<b, a>>]

RECURSIVE flagsOf(_, _, _, _)
flagsOf(repos, files, ps, threshold) ==
  IF ps = <<>> THEN <<>>
  ELSE LET a == repos[Head(ps)[1]]
           b == repos[Head(ps)[2]]
           rest == flagsOf(repos, files, Tail(ps), threshold)
       IN IF pairSim(files, a, b) >= threshold
            THEN <<[repo1 |-> a, repo2 |-> b, file1 |-> "f1", file2 |-> "f2",
                    similarity |-> pairSim(files, a, b)]>> \o rest
            ELSE rest

\* flags.sort((a, b) => b.similarity - a.similarity): stable, descending.
RECURSIVE sortDesc(_)
sortDesc(fs) ==
  IF fs = <<>> THEN <<>>
  ELSE LET top == SeqMax([i \in 1 .. Len(fs) |-> fs[i].similarity])
           IsTop(f) == f.similarity = top
           NotTop(f) == f.similarity # top
       IN SelectSeq(fs, IsTop) \o sortDesc(SelectSeq(fs, NotTop))

crossCompareRepos(repos, files, threshold) ==
  sortDesc(flagsOf(repos, files, pairsFrom(Len(repos), 1, 2), threshold))

----------------------------------------------------------------------------
(* cron/githubSync.js and routes/github-monitor.js: the invocations        *)

IdleCycle == [ pc |-> "idle", list |-> <<>>, i |-> 0, errorCount |-> 0 ]

IdleMon == [ pc |-> "idle", pid |-> 0, changes |-> NoChanges ]

IdleXc ==
  [ pc |-> "idle", repos |-> <<>>, threshold |-> 0, flags |-> <<>>, k |-> 0,
    side |-> 0, affected |-> <<>>, a |-> 0, changes |-> NoChanges ]

\* monitorRepository(owner, repo, participantId) up to its first await.
startMon(pid) == [IdleMon EXCEPT !.pc = "load", !.pid = pid]

\* A comparison job up to its first await (the file fetches).
startXc(repos, threshold) ==
  [IdleXc EXCEPT !.pc = "fetch", !.repos = repos, !.threshold = threshold]

\* The registered documents as GitHubAnalysis.find() lists them.
RECURSIVE findAll(_)
findAll(p) ==
  IF p \notin Participants THEN <<>>
  ELSE (IF analyses[p].exists THEN <<p>> ELSE <<>>) \o findAll(p + 1)

finallySkipped(flag) == flag

\* finally { _isRunning = false; ... }
finallyBlock(flag) == FALSE

\* The cycle leaves its try block, by a return, by the end of the block or
\* by the catch: the finally block runs, the invocation is over.
CycleFinish(s) ==
  /\ isRunning' = finallyBlock(isRunning)
  /\ cyc' = [cyc EXCEPT ![s] = IdleCycle]

\* The slot a new invocation takes: the first one not in use.
freeSlot ==
  IF \E s \in Slots : cyc[s].pc = "idle"
    THEN CHOOSE s \in Slots : cyc[s].pc = "idle" /\ \A t \in Slots : cyc[t].pc = "idle" => s <= t
    ELSE 0

neverRunning(flag) == FALSE

\* if (_isRunning) { warn; return; }
alreadyRunning(flag) == flag

afterSkipCleared(flag) == FALSE

\* The flag after the early return of a skipped trigger: the return lies
\* before the try block, so the finally block does not run.
afterSkip(flag) == flag

\* runSync(), from its call to its first await (GitHubAnalysis.find()).
runSync(s, startup) ==
  IF alreadyRunning(isRunning)
    THEN /\ sched' = [sched EXCEPT !.triggers = @ + 1, !.skipped = @ + 1,
                                   !.startup = @ \/ startup]
         /\ isRunning' = afterSkip(isRunning)
         /\ UNCHANGED <<cyc, mon, xc, analyses>>
    ELSE /\ isRunning' = TRUE
         /\ cyc' = [cyc EXCEPT ![s] = [IdleCycle EXCEPT !.pc = "find"]]
         /\ sched' = [sched EXCEPT !.triggers = @ + 1,
                                   !.startup = @ \/ startup]
         /\ UNCHANGED <<mon, xc, analyses>>

\* cron.schedule(cronExpression, () => runSync())
CronTick(s) ==
  /\ UNCHANGED notSync
  /\ s = freeSlot
  /\ sched.triggers < MaxTriggers
  /\ runSync(s, FALSE)

\* setTimeout(() => runSync(), 10000): once, after startup.
StartupRun(s) ==
  /\ UNCHANGED notSync
  /\ s = freeSlot
  /\ ~sched.startup
  /\ sched.triggers < MaxTriggers
  /\ runSync(s, TRUE)

\* const analyses = await GitHubAnalysis.find().lean(), then the loop up to
\* the first monitorRepository's first await.
CycleFind(s) ==
  /\ UNCHANGED notSync
  /\ cyc[s].pc = "find"
  /\ UNCHANGED <<analyses, sched, xc>>
  /\ \/ \* the read fails: catch, finally
        /\ CycleFinish(s)
        /\ UNCHANGED mon
     \/ LET list == findAll(1)
        IN IF list = <<>>
             THEN \* nothing to sync: return, finally
                  /\ CycleFinish(s)
                  /\ UNCHANGED mon
             ELSE /\ cyc' = [cyc EXCEPT ![s] =
                       [@ EXCEPT !.pc = "monitor", !.list = list, !.i = 1]]
                  /\ mon' = [mon EXCEPT ![s] = startMon(list[1])]
                  /\ UNCHANGED isRunning

onMonitorErrorRethrow == "rethrow"

\* catch (err) { errorCount++; logger.error(...) } inside the for loop.
onMonitorError == "continue"

\* The cycle after monitorRepository returned (ok) or threw (~ok) for
\* list[i]: the next repository, the cross-comparison, or the end.
AfterMonitor(s, ok) ==
  LET c0 == cyc[s]
      c == [c0 EXCEPT !.errorCount = IF ok THEN @ ELSE @ + 1]
  IN IF ~ok /\ onMonitorError # "continue"
       THEN /\ CycleFinish(s)
            /\ mon' = [mon EXCEPT ![s] = IdleMon]
            /\ UNCHANGED xc
       ELSE IF c.i < Len(c.list)
         THEN /\ cyc' = [cyc EXCEPT ![s] =
                   [c EXCEPT !.i = @ + 1]]
              /\ mon' = [mon EXCEPT ![s] = startMon(c.list[c.i + 1])]
              /\ UNCHANGED <<isRunning, xc>>
         ELSE IF Len(c.list) >= 2
           THEN /\ cyc' = [cyc EXCEPT ![s] =
                     [c EXCEPT !.pc = "cross"]]
                /\ mon' = [mon EXCEPT ![s] = IdleMon]
                /\ xc' = [xc EXCEPT ![s] = startXc(c.list, DefaultThreshold)]
                /\ UNCHANGED isRunning
           ELSE /\ CycleFinish(s)
                /\ mon' = [mon EXCEPT ![s] = IdleMon]
                /\ UNCHANGED xc

\* monitorRepository is over: its caller goes on.
MonEnd(c, ok) ==
  IF c \in Slots
    THEN AfterMonitor(c, ok)
    ELSE /\ mon' = [mon EXCEPT ![c] = IdleMon]
         /\ UNCHANGED <<isRunning, cyc, xc>>

\* POST /sync/:id: 404 without a record, else monitorRepository.
ManualSync(p) ==
  /\ UNCHANGED notSync
  /\ mon[ManualCaller].pc = "idle"
  /\ analyses[p].exists
  /\ mon' = [mon EXCEPT ![ManualCaller] = startMon(p)]
  /\ UNCHANGED <<isRunning, cyc, xc, analyses, sched>>

\* The merge of a commit analysis into the loaded document, and
\* analysis.recalculateSuspicion() on it.
mergeAnalysis(doc, avgScore, idle) ==
  LET d == [doc EXCEPT !.avgCommitSuspicionScore = avgScore, !.idleBursts = idle]
  IN [d EXCEPT !.githubSuspicionScore = recalculateSuspicion(d)]

\* let analysis = await GitHubAnalysis.findOne({ participantId }), then
\* fetchCommits, the commit details and the analysis, up to the await of
\* analysis.save(): a failure of the read or of the remote, no new commit,
\* or the analysis of new commits. The code after the read uses the loaded
\* document and the remote only, so the step stands where the read is. The
\* document in memory is kept as its modified paths.
MonLoad(c) ==
  /\ UNCHANGED notSync
  /\ mon[c].pc = "load"
  /\ UNCHANGED <<analyses, sched>>
  /\ LET loaded == inMemory(analyses[mon[c].pid])
         doc == IF loaded.exists THEN loaded ELSE NewAnalysis
     IN \/ MonEnd(c, FALSE)
        \/ /\ mon' = [mon EXCEPT ![c] =
                [@ EXCEPT !.pc = "save", !.changes = modifiedPaths(loaded, doc)]]
           /\ UNCHANGED <<isRunning, cyc, xc>>
        \/ /\ \E r \in AnalysisResults :
                mon' = [mon EXCEPT ![c] =
                  [@ EXCEPT !.pc = "save",
                            !.changes = modifiedPaths(loaded,
                                          mergeAnalysis(doc, r[1], r[2]))]]
           /\ UNCHANGED <<isRunning, cyc, xc>>

\* await analysis.save()
MonSave(c) ==
  /\ UNCHANGED notSync
  /\ mon[c].pc = "save"
  /\ UNCHANGED sched
  /\ \/ /\ analyses' = [analyses EXCEPT ![mon[c].pid] =
              saveModified(@, mon[c].changes)]
        /\ MonEnd(c, TRUE)
     \/ /\ UNCHANGED analyses
        /\ MonEnd(c, FALSE)

\* A comparison job is over: runSync reaches its finally block, the
\* POST /compare request is answered.
XcEnd(c) ==
  /\ xc' = [xc EXCEPT ![c] = IdleXc]
  /\ IF c \in Slots
       THEN CycleFinish(c) /\ UNCHANGED mon
       ELSE UNCHANGED <<isRunning, cyc, mon>>

\* affectedPids: the participants of the flags, in insertion order.
RECURSIVE affectedOf(_, _)
affectedOf(flags, acc) ==
  IF flags = <<>> THEN acc
  ELSE LET f == Head(flags)
           a1 == IF f.repo1 \in Range(acc) THEN acc ELSE Append(acc, f.repo1)
           a2 == IF f.repo2 \in Range(a1) THEN a1 ELSE Append(a1, f.repo2)
       IN affectedOf(Tail(flags), a2)

\* POST /compare {participantId1, participantId2, threshold}: 404 unless
\* both records exist, else compareRepositories.
Compare(p1, p2, threshold) ==
  /\ UNCHANGED notSync
  /\ xc[CompareCaller].pc = "idle"
  /\ p1 # p2
  /\ analyses[p1].exists /\ analyses[p2].exists
  /\ xc' = [xc EXCEPT ![CompareCaller] = startXc(<<p1, p2>>, threshold)]
  /\ UNCHANGED <<isRunning, cyc, mon, analyses, sched>>

\* The fetchRepoFiles calls (a failed fetch yields no file) and
\* crossCompareRepos. The environment yields files only while the records
\* compared have room for another match. What the job does not read again
\* (the threshold after the comparison, the flags after the persist loop)
\* is dropped from its state.
XcFetch(c) ==
  /\ UNCHANGED notSync
  /\ xc[c].pc = "fetch"
  /\ UNCHANGED <<analyses, sched>>
  /\ \E have \in SUBSET Range(xc[c].repos), files \in [RepoPairs -> Sims] :
       /\ (\E p \in Range(xc[c].repos) :
              Len(analyses[p].similarityMatches) >= MaxMatches) => have = {}
       /\ LET j == xc[c]
              repoFiles == SelectSeq(j.repos, LAMBDA p : p \in have)
              enough == IF c \in Slots THEN Len(repoFiles) >= 2
                                        ELSE Len(repoFiles) = Len(j.repos)
              flags == IF enough THEN crossCompareRepos(repoFiles, files, j.threshold)
                                 ELSE <<>>
          IN IF ~enough \/ (c \in Slots /\ flags = <<>>)
               THEN XcEnd(c)
               ELSE /\ xc' = [xc EXCEPT ![c] =
                         IF flags = <<>>
                           THEN [j EXCEPT !.pc = "recalc_load", !.threshold = 0,
                                          !.affected = j.repos, !.a = 1]
                           ELSE [j EXCEPT !.pc = "persist", !.threshold = 0,
                                          !.flags = flags, !.k = 1, !.side = 1]]
                    /\ UNCHANGED <<isRunning, cyc, mon>>

\* One await GitHubAnalysis.findOneAndUpdate(...) of the persist loop.
XcPersist(c) ==
  /\ UNCHANGED notSync
  /\ xc[c].pc = "persist"
  /\ UNCHANGED sched
  /\ LET j == xc[c]
         f == j.flags[j.k]
         target == IF j.side = 1 THEN f.repo1 ELSE f.repo2
         entry == IF j.side = 1
                    THEN matchEntry(f.repo2, f.file1, f.file2, f.similarity)
                    ELSE matchEntry(f.repo1, f.file2, f.file1, f.similarity)
     IN \/ /\ analyses' = [analyses EXCEPT ![target] = pushMatch(@, entry)]
           /\ xc' = [xc EXCEPT ![c] =
                IF j.side = 1 THEN [j EXCEPT !.side = 2]
                ELSE IF j.k < Len(j.flags)
                  THEN [j EXCEPT !.k = @ + 1, !.side = 1]
                  ELSE [j EXCEPT !.pc = "recalc_load", !.a = 1,
                          !.flags = <<>>, !.k = 0, !.side = 0,
                          !.affected = IF c \in Slots
                                         THEN affectedOf(j.flags, <<>>)
                                         ELSE j.repos]]
           /\ UNCHANGED <<isRunning, cyc, mon>>
        \/ \* the update throws: out of the job
           /\ UNCHANGED analyses
           /\ XcEnd(c)

\* The recalculation loop goes on with the next affected participant.
XcNext(c) ==
  IF xc[c].a < Len(xc[c].affected)
    THEN /\ xc' = [xc EXCEPT ![c] =
              [@ EXCEPT !.pc = "recalc_load", !.a = @ + 1,
                        !.changes = NoChanges]]
         /\ UNCHANGED <<isRunning, cyc, mon>>
    ELSE XcEnd(c)

\* A failure in the recalculation loop: caught per participant by
\* runCrossComparison, thrown out of compareRepositories.
XcRecalcError(c) == IF c \in Slots THEN XcNext(c) ELSE XcEnd(c)

\* const doc = await GitHubAnalysis.findOne({ participantId: pid });
\* if (doc) { doc.recalculateSuspicion(); ... up to the await of doc.save()
XcRecalcLoad(c) ==
  /\ UNCHANGED notSync
  /\ xc[c].pc = "recalc_load"
  /\ UNCHANGED <<analyses, sched>>
  /\ LET doc == inMemory(analyses[xc[c].affected[xc[c].a]])
     IN \/ IF doc.exists
             THEN /\ xc' = [xc EXCEPT ![c] =
                       [@ EXCEPT !.pc = "recalc_save",
                          !.changes = modifiedPaths(doc,
                             [doc EXCEPT !.githubSuspicionScore =
                                            recalculateSuspicion(doc)])]]
                  /\ UNCHANGED <<isRunning, cyc, mon>>
             ELSE XcNext(c)
        \/ XcRecalcError(c)

\* await doc.save() of the recalculation loop
XcRecalcSave(c) ==
  /\ UNCHANGED notSync
  /\ xc[c].pc = "recalc_save"
  /\ UNCHANGED sched
  /\ LET pid == xc[c].affected[xc[c].a]
     IN \/ /\ analyses' = [analyses EXCEPT ![pid] =
                saveModified(@, xc[c].changes)]
           /\ XcNext(c)
        \/ /\ UNCHANGED analyses
           /\ XcRecalcError(c)

\* findOneAndUpdate({participantId}, {repo coordinates}, {upsert: true}):
\* a new record gets the schema defaults, an existing one keeps its
\* analysis fields.
registerUpsert(doc) == IF doc.exists THEN doc ELSE NewAnalysis

\* POST /register, for a new participant or one registered before.
Register(p) ==
  /\ UNCHANGED notSync
  /\ analyses' = [analyses EXCEPT ![p] = registerUpsert(@)]
  /\ UNCHANGED <<isRunning, cyc, mon, xc, sched>>


----------------------------------------------------------------------------
(* middleware/auth.js: the admission of a POST /api/events request.        *)
(* Strings whose length alone matters (paths, names) are given by length.  *)

MachineIds == {"m1", "m2"}

LimiterMax == 100          \* participantLimiter: max
MaxEventsLen == 500        \* eventsPayloadSchema: events
MaxPatternLen == 5000      \* eventsPayloadSchema: typingPattern
MaxFileLen == 500          \* eventDataSchema: file
MaxNameLen == 200          \* singleEventSchema: userId, workspace

EventTypes ==
  {"paste", "typing", "file_change", "file_operation", "window_blur", "clipboard"}

\* keyGenerator: the machineId of the payload (the requests of the model
\* carry one, so the fall-back to the client address is not taken).
keyGenerator(body) == body.machineId

rejectsFromMax(totalHits) == totalHits >= LimiterMax

\* express-rate-limit: a request is rejected once the hits of its key in
\* the current window exceed max.
rejects(totalHits) == totalHits > LimiterMax

\* participantLimiter on a request whose key has count hits so far: the hit
\* is counted, then the request goes on (next) or is answered 429.
participantLimiter(count) ==
  [ hits |-> count + 1,
    verdict |-> IF rejects(count + 1) THEN "429" ELSE "next" ]

\* An event of the agent with the fields the server reads.
Ev(type) ==
  [ type |-> type, timestamp |-> 0, length |-> 0, anomaly |-> FALSE, focused |-> TRUE,
    unfocusedDurationMs |-> 0, operation |-> "", file |-> 0, workspace |-> 8 ]

validEvent(e) ==
  /\ e.type \in EventTypes
  /\ e.file <= MaxFileLen
  /\ e.workspace <= MaxNameLen

\* eventsPayloadSchema.validate(req.body): no error.
validateEventsPayload(body) ==
  /\ Len(body.events) <= MaxEventsLen
  /\ \A i \in 1 .. Len(body.events) : validEvent(body.events[i])
  /\ body.typingPattern <= MaxPatternLen
  /\ body.machineId # ""

----------------------------------------------------------------------------
(* utils/suspicionCalculator.js, in units of 1e-5 *)

\* Math.log10(pasteCount + 1) * 0.18 for pasteCount = 1, 2, ...
PasteLog ==
  << 5419, 8588, 10837, 12581, 14007, 15212, 16256, 17176, 18000, 18745,
     19425, 20051, 20630, 21170, 21674, 22148, 22595, 23018, 23419, 23800,
     24164, 24511, 24844, 25163, 25470, 25765, 26049, 26323, 26588, 26845,
     27093, 27333, 27567, 27793, 28013, 28228, 28436, 28639, 28837, 29030,
     29218, 29402, 29582, 29758, 29930, 30098, 30262, 30424, 30581, 30736,
     30888, 31037, 31183, 31327, 31467, 31606, 31742, 31875, 32007, 32136 >>

calculateParticipantSuspicion(stats) ==
  Min( round3( (IF stats.pasteCount > 0
                  THEN Min(PasteLog[stats.pasteCount], 50000) ELSE 0)
             + (IF stats.pasteCharsTotal > 1000
                  THEN Min(stats.pasteCharsTotal * 10, 30000) ELSE 0)
             + (IF stats.typingAnomalies > 5
                  THEN Min(stats.typingAnomalies * 1000, 20000) ELSE 0)
             + (IF stats.windowBlurTotalMs > 600000 THEN 15000 ELSE 0)
             + (IF stats.clipboardChanges > 20
                  THEN Min(stats.clipboardChanges * 500, 15000) ELSE 0) ),
       1000 )

isLargePasteFrom(len) == len >= 500

\* len > THRESHOLDS.PASTE_LARGE_CHARS
isLargePaste(len) == len > 500

\* calculateEventSuspicion(event, typingStats, recentContext).score, in
\* thousandths: the contributions are multiples of 0.1, so the rounding to
\* three decimals changes nothing.
calculateEventSuspicion(event, typingStats, recentContext) ==
  Min( (IF event.type = "paste"
          THEN IF isLargePaste(event.length) THEN 900
               ELSE IF event.length > 100 THEN 600 ELSE 0
          ELSE 0)
     + (IF /\ event.type = "typing" /\ event.anomaly = "fast_typing"
           /\ event.interval > 0 /\ event.interval < 30
          THEN 400 ELSE 0)
     + (IF typingStats.avgInterval > 0 /\ typingStats.avgInterval < 30
          THEN 400 ELSE 0)
     + (IF typingStats.variance > 15000 THEN 300 ELSE 0)
     + (IF /\ event.type = "window_blur" /\ event.focused = FALSE
           /\ event.unfocusedDurationMs > 120 * 1000
          THEN 200 ELSE 0)
     + (IF event.type = "clipboard" /\ recentContext.clipboardChanges60s > 5
          THEN 300 ELSE 0)
     + (IF /\ event.type = "file_operation" /\ event.operation = "create"
           /\ recentContext.hadTypingBefore = "false"
          THEN 500 ELSE 0),
       1000 )

\* An event with the fields calculateEventSuspicion reads.
Sc(type) ==
  [ type |-> type, length |-> 0, anomaly |-> "", interval |-> 0, focused |-> TRUE,
    unfocusedDurationMs |-> 0, operation |-> "" ]

\* Events around the thresholds of the rules.
ScoredEvents ==
  {[Sc("paste") EXCEPT !.length = n] : n \in {0, 100, 101, 500, 501}}
  \cup {[Sc("typing") EXCEPT !.anomaly = a, !.interval = i] :
            a \in {"", "fast_typing", "slow_typing"}, i \in {0, 29, 30}}
  \cup {[Sc("window_blur") EXCEPT !.focused = f, !.unfocusedDurationMs = d] :
            f \in BOOLEAN, d \in {120000, 120001}}
  \cup {[Sc("file_operation") EXCEPT !.operation = o] : o \in {"create", "delete"}}
  \cup {Sc("clipboard"), Sc("file_change")}

TypingStats == [avgInterval : {0, 29, 30}, variance : {15000, 15001}]

\* hadTypingBefore is true, false or not given.
RecentContexts ==
  [clipboardChanges60s : {5, 6}, hadTypingBefore : {"true", "false", "undefined"}]

NoScoring ==
  [ done |-> FALSE, event |-> Sc(""),
    typingStats |-> [avgInterval |-> 0, variance |-> 0],
    recentContext |-> [clipboardChanges60s |-> 0, hadTypingBefore |-> "undefined"],
    score |-> 0 ]

\* A call of calculateEventSuspicion returns.
ScoreEvent ==
  /\ ~scoring.done
  /\ scoring' =
       [scoring EXCEPT !.done = TRUE,
          !.score = calculateEventSuspicion(scoring.event, scoring.typingStats,
                                            scoring.recentContext)]
  /\ UNCHANGED <<participantDoc, lastEvent, analysisDoc, commits, timingAnalysis>>
  /\ UNCHANGED notCalc

\* checkAlertConditions(participant).level
alertLevel(doc) ==
  IF doc.suspicionScore > 700 THEN "critical"
  ELSE IF doc.stats.pasteCount > 10 THEN "warning"
  ELSE IF doc.stats.windowBlurTotalMs > 600000 THEN "warning"
  ELSE "none"

shouldAlertCritical(doc) == doc.suspicionScore > 700

\* checkAlertConditions(participant).shouldAlert
shouldAlert(doc) ==
  \/ doc.suspicionScore > 700
  \/ doc.stats.pasteCount > 10
  \/ doc.stats.windowBlurTotalMs > 600000

----------------------------------------------------------------------------
(* server.js: the live channel *)

Sockets == {1}

\* What a client presents when it connects: no token, a token with a bad
\* signature, an expired token, a valid token.
Credentials == {"none", "invalid", "expired", "valid"}

FrameNames == {"alert", "participant:updated"}

Frames == FrameNames \X MachineIds

\* The room names "dashboard" and `participant:${participantId}`.
dashboardRoom == <<"dashboard", "">>

participantRoom(m) == <<"participant", m>>

Rooms == {dashboardRoom} \cup {participantRoom(m) : m \in MachineIds}

NoSocket == [ connected |-> FALSE, credential |-> "none", rooms |-> {} ]

\* io.to(room).emit(name, payload about machine m): every socket that has
\* joined the room receives the frame.
emit(rcv, room, frame) ==
  [ s \in Sockets |->
      IF sockets[s].connected /\ room \in sockets[s].rooms
        THEN [rcv[s] EXCEPT ![frame] = @ + 1]
        ELSE rcv[s] ]

\* io.on("connection", (socket) => ...): the handlers are registered for
\* every client that connects; nothing of the handshake is read.
Connect(s, cred) ==
  /\ ~sockets[s].connected
  /\ sockets' = [sockets EXCEPT ![s] =
        [ connected |-> TRUE, credential |-> cred, rooms |-> {} ]]
  /\ UNCHANGED notLive

\* socket.on("join:dashboard", () => socket.join("dashboard"))
JoinDashboard(s) ==
  /\ sockets[s].connected
  /\ sockets' = [sockets EXCEPT ![s].rooms = @ \cup {dashboardRoom}]
  /\ UNCHANGED notLive

\* socket.on("watch:participant", (participantId) =>
\*   socket.join(`participant:${participantId}`))
WatchParticipant(s, m) ==
  /\ sockets[s].connected
  /\ sockets' = [sockets EXCEPT ![s].rooms = @ \cup {participantRoom(m)}]
  /\ UNCHANGED notLive

\* socket.on("disconnect"): the socket has left its rooms.
Disconnect(s) ==
  /\ sockets[s].connected
  /\ sockets' = [sockets EXCEPT ![s] = NoSocket]
  /\ UNCHANGED notLive

----------------------------------------------------------------------------
(* routes/events.js: POST /api/events *)

NoStats ==
  [ pasteCount |-> 0, pasteCharsTotal |-> 0, typingAnomalies |-> 0,
    windowBlurCount |-> 0, windowBlurTotalMs |-> 0, clipboardChanges |-> 0,
    filesCreated |-> 0, filesDeleted |-> 0 ]

\* A new Participant document: the schema defaults.
NewParticipant ==
  [ exists |-> TRUE, totalEvents |-> 0, suspicionScore |-> 0, stats |-> NoStats ]

NoParticipant == [NewParticipant EXCEPT !.exists = FALSE]

\* The switch on event.type: the aggregate counters of the document in memory.
applyEvent(stats, e) ==
  CASE e.type = "paste" ->
         [stats EXCEPT !.pasteCount = @ + 1, !.pasteCharsTotal = @ + e.length]
    [] e.type = "typing" ->
         [stats EXCEPT !.typingAnomalies = IF e.anomaly THEN @ + 1 ELSE @]
    [] e.type = "window_blur" ->
         [stats EXCEPT
            !.windowBlurCount = IF e.focused = FALSE THEN @ + 1 ELSE @,
            !.windowBlurTotalMs = @ + e.unfocusedDurationMs]
    [] e.type = "clipboard" -> [stats EXCEPT !.clipboardChanges = @ + 1]
    [] e.type = "file_operation" ->
         [stats EXCEPT
            !.filesCreated = IF e.operation = "create" THEN @ + 1 ELSE @,
            !.filesDeleted = IF e.operation = "delete" THEN @ + 1 ELSE @]
    [] OTHER -> stats

RECURSIVE applyEvents(_, _)
applyEvents(stats, events) ==
  IF events = <<>> THEN stats
  ELSE applyEvents(applyEvent(stats, Head(events)), Tail(events))

\* The document in memory at the await of participantDoc.save(): the
\* counters after the loop, totalEvents and the recomputed score.
docToSave(loaded, body) ==
  LET stats == applyEvents(loaded.stats, body.events)
  IN [loaded EXCEPT !.stats = stats,
                    !.totalEvents = @ + Len(body.events),
                    !.suspicionScore = calculateParticipantSuspicion(stats)]

\* participantDoc.save(): the paths whose value differs from the loaded
\* one are written, the other paths keep their stored value.
saveParticipant(stored, loaded, doc) ==
  IF ~stored.exists THEN stored
  ELSE [ exists |-> TRUE,
         totalEvents |->
           IF doc.totalEvents # loaded.totalEvents
             THEN doc.totalEvents ELSE stored.totalEvents,
         suspicionScore |->
           IF doc.suspicionScore # loaded.suspicionScore
             THEN doc.suspicionScore ELSE stored.suspicionScore,
         stats |->
           [f \in DOMAIN stored.stats |->
              IF doc.stats[f] # loaded.stats[f]
                THEN doc.stats[f] ELSE stored.stats[f]] ]

NoBody == [ machineId |-> "", events |-> <<>>, typingPattern |-> 0 ]

IdleReq == [ pc |-> "idle", body |-> NoBody, loaded |-> NoParticipant, pattern |-> 0 ]

ReqSlots == {1, 2}

freeReqSlot ==
  IF \E r \in ReqSlots : reqs[r].pc = "idle"
    THEN CHOOSE r \in ReqSlots :
           reqs[r].pc = "idle" /\ \A q \in ReqSlots : reqs[q].pc = "idle" => r <= q
    ELSE 0

afterRejectNext(q, body) == [q EXCEPT !.pc = "upsert", !.body = body]

\* return res.status(429 or 400).json(...): the middleware answers and does
\* not call next(), so the request never reaches the handler.
afterReject(q, body) == q

\* res.status(code).json(...)
respond(code) == responses' = [responses EXCEPT ![code] = @ + 1]

\* router.post("/", participantLimiter, validateEventsPayload, handler): a
\* request arrives, and runs up to the first await of the handler.
Arrive(r, body) ==
  /\ UNCHANGED notIngest
  /\ r = freeReqSlot
  /\ arrived < MaxRequests
  /\ arrived' = arrived + 1
  /\ LET key == keyGenerator(body)
         lim == participantLimiter(hits[key])
     IN /\ hits' = [hits EXCEPT ![key] = lim.hits]
        /\ verdict' = [verdict EXCEPT ![key] = lim.verdict]
        /\ IF lim.verdict = "429"
             THEN /\ respond(429)
                  /\ reqs' = [reqs EXCEPT ![r] = afterReject(@, body)]
             ELSE IF ~validateEventsPayload(body)
               THEN /\ respond(400)
                    /\ reqs' = [reqs EXCEPT ![r] = afterReject(@, body)]
               ELSE /\ reqs' = [reqs EXCEPT ![r] =
                         [IdleReq EXCEPT !.pc = "upsert", !.body = body]]
                    /\ UNCHANGED responses
  /\ UNCHANGED <<participants, eventRows, patterns, lastError, emitted, received, accepted>>

afterErrorContinue(q) == [q EXCEPT !.pc = "save"]

\* A rejected await leaves the try block: nothing of the handler runs after
\* the catch block.
afterError(q) == IdleReq

\* catch (err) { logger.error(...); res.status(500) }
Abort(r, step) ==
  /\ reqs' = [reqs EXCEPT ![r] = afterError(@)]
  /\ lastError' = step
  /\ respond(500)

\* await Participant.findOneAndUpdate({machineId}, ..., {upsert, new}),
\* then the call of the first countDocuments.
Upsert(r) ==
  /\ UNCHANGED notIngest
  /\ reqs[r].pc = "upsert"
  /\ UNCHANGED <<eventRows, patterns, hits, verdict, arrived, emitted, received, accepted>>
  /\ LET m == reqs[r].body.machineId
         doc == IF participants[m].exists THEN participants[m] ELSE NewParticipant
     IN \/ /\ participants' = [participants EXCEPT ![m] = doc]
           /\ reqs' = [reqs EXCEPT ![r] = [@ EXCEPT !.pc = "context", !.loaded = doc]]
           /\ UNCHANGED <<responses, lastError>>
        \/ /\ UNCHANGED participants
           /\ Abort(r, "upsert")

\* The two await Event.countDocuments(...), then the loop over the events
\* (the scores, the counters of the document in memory) up to the await of
\* insertMany.
Context(r) ==
  /\ UNCHANGED notIngest
  /\ reqs[r].pc = "context"
  /\ UNCHANGED <<participants, eventRows, patterns, hits, verdict, arrived, emitted, received, accepted>>
  /\ \/ /\ reqs' = [reqs EXCEPT ![r] = [@ EXCEPT !.pc = "insert"]]
        /\ UNCHANGED <<responses, lastError>>
     \/ Abort(r, "context")

\* The handler after the bulk insert: the typing pattern, if the batch
\* carries one, else the participant's save.
afterInsert(q) ==
  [q EXCEPT !.pc = IF q.body.typingPattern > 0 THEN "pattern_load" ELSE "save"]

\* await Event.insertMany(eventDocs, { ordered: false }). Every row is
\* stored; or the store cannot be reached; or one row fails: a row that
\* fails the schema validation is left out and the call resolves, a row
\* the store refuses makes the call reject after the other rows are stored,
\* and the rejection reaches the catch block of the handler.
Insert(r) ==
  /\ UNCHANGED notIngest
  /\ reqs[r].pc = "insert"
  /\ UNCHANGED <<participants, patterns, hits, verdict, arrived, emitted, received, accepted>>
  /\ LET m == reqs[r].body.machineId
         n == Len(reqs[r].body.events)
     IN \/ /\ eventRows' = [eventRows EXCEPT ![m] = @ + n]
           /\ reqs' = [reqs EXCEPT ![r] = afterInsert(@)]
           /\ UNCHANGED <<responses, lastError>>
        \/ /\ UNCHANGED eventRows
           /\ Abort(r, "insertMany")
        \/ /\ eventRows' = [eventRows EXCEPT ![m] = @ + n - 1]
           /\ reqs' = [reqs EXCEPT ![r] = afterInsert(@)]
           /\ UNCHANGED <<responses, lastError>>
        \/ /\ eventRows' = [eventRows EXCEPT ![m] = @ + n - 1]
           /\ Abort(r, "insertMany row")

\* let patternDoc = await TypingPattern.findOne({participantId})
PatternLoad(r) ==
  /\ UNCHANGED notIngest
  /\ reqs[r].pc = "pattern_load"
  /\ UNCHANGED <<participants, eventRows, patterns, hits, verdict, arrived, emitted, received, accepted>>
  /\ \/ /\ reqs' = [reqs EXCEPT ![r] =
              [@ EXCEPT !.pc = "pattern_save",
                        !.pattern = patterns[reqs[r].body.machineId]]]
        /\ UNCHANGED <<responses, lastError>>
     \/ Abort(r, "pattern")

\* The length of the array in memory after push(...intervals) and the cap:
\* over 10000, slice(-8000).
capIntervals(len) == IF len > 10000 THEN 8000 ELSE len

\* patternDoc.intervals.push(...intervals), the cap, await patternDoc.save().
\* A stored pattern always holds an interval, so length 0 stands for no
\* document. A new document is inserted, which the unique index on
\* participantId refuses when another request has inserted one since the
\* findOne. On a loaded document the pushed intervals are appended to the
\* stored array ($push); a capped array replaces the stored one ($set).
\* Whether the replacement is refused when the stored array has changed
\* since the findOne depends on the versioning of the store library: both
\* outcomes are steps of the action, the refusal being one of the failures
\* of the save.
PatternSave(r) ==
  /\ UNCHANGED notIngest
  /\ reqs[r].pc = "pattern_save"
  /\ UNCHANGED <<participants, eventRows, hits, verdict, arrived, emitted, received, accepted>>
  /\ LET m == reqs[r].body.machineId
         n == reqs[r].body.typingPattern
         loaded == reqs[r].pattern
         len == loaded + n
         written == IF loaded = 0 \/ len > 10000
                      THEN capIntervals(len)
                      ELSE patterns[m] + n
         mayWrite == loaded = 0 => patterns[m] = 0
     IN \/ /\ mayWrite
           /\ patterns' = [patterns EXCEPT ![m] = written]
           /\ reqs' = [reqs EXCEPT ![r] = [@ EXCEPT !.pc = "save"]]
           /\ UNCHANGED <<responses, lastError>>
        \/ /\ UNCHANGED patterns
           /\ Abort(r, "pattern")

\* participantDoc.totalEvents += events.length; the score; await
\* participantDoc.save(); the alert and participant:updated frames; res.json.
Save(r) ==
  /\ UNCHANGED notIngest
  /\ reqs[r].pc = "save"
  /\ UNCHANGED <<eventRows, patterns, hits, verdict, arrived>>
  /\ LET m == reqs[r].body.machineId
         doc == docToSave(reqs[r].loaded, reqs[r].body)
     IN \/ /\ participants' = [participants EXCEPT ![m] =
                saveParticipant(@, reqs[r].loaded, doc)]
           /\ emitted' = [emitted EXCEPT
                !.alert = IF shouldAlert(doc) THEN @ + 1 ELSE @,
                !.updated = @ + 1]
           /\ received' =
                emit(IF shouldAlert(doc)
                       THEN emit(received, dashboardRoom, <<"alert", m>>)
                       ELSE received,
                     dashboardRoom, <<"participant:updated", m>>)
           /\ accepted' = [accepted EXCEPT ![m] = @ \o reqs[r].body.events]
           /\ reqs' = [reqs EXCEPT ![r] = IdleReq]
           /\ respond(200)
           /\ UNCHANGED lastError
        \/ /\ UNCHANGED <<participants, emitted, received, accepted>>
           /\ Abort(r, "save")

\* A request through participantLimiter alone.
LimiterRequest(key) ==
  /\ UNCHANGED notIngest
  /\ hits[key] < MaxHits
  /\ hits' = [hits EXCEPT ![key] = participantLimiter(hits[key]).hits]
  /\ verdict' = [verdict EXCEPT ![key] = participantLimiter(hits[key]).verdict]
  /\ UNCHANGED <<participants, eventRows, patterns, reqs, arrived, responses,
                 lastError, emitted, received, accepted>>

\* windowMs have passed: the hits of a key are forgotten.
WindowExpire(key) ==
  /\ UNCHANGED notIngest
  /\ hits[key] > 0
  /\ hits' = [hits EXCEPT ![key] = 0]
  /\ verdict' = [verdict EXCEPT ![key] = "none"]
  /\ UNCHANGED <<participants, eventRows, patterns, reqs, arrived, responses,
                 lastError, emitted, received, accepted>>

\* The batches of the model: a paste of 1200 characters; a window blur of
\* 700 s with 5000 typing intervals; a file change whose path is too long.
PasteBody ==
  [ machineId |-> "m1", typingPattern |-> 0,
    events |-> << [Ev("paste") EXCEPT !.length = 1200] >> ]

BlurBody ==
  [ machineId |-> "m1", typingPattern |-> MaxPatternLen,
    events |-> << [Ev("window_blur") EXCEPT !.focused = FALSE,
                                            !.unfocusedDurationMs = 700000] >> ]

LongPathBody ==
  [ machineId |-> "m1", typingPattern |-> 0,
    events |-> << [Ev("file_change") EXCEPT !.file = MaxFileLen + 1] >> ]

\* A batch of another machine: a clipboard change.
OtherBody ==
  [ machineId |-> "m2", typingPattern |-> 0, events |-> << Ev("clipboard") >> ]

Bodies == {PasteBody, BlurBody, LongPathBody, OtherBody}

Statuses == {200, 400, 429, 500}

----------------------------------------------------------------------------
(* routes/events.js: the loop of the handler on the document in memory *)

MaxEvents == 3

MaxPastes == 51

\* Events as the agent emits them: the window loses focus; it regains it
\* after a minute; the unfocus timer fires after two minutes; a typing
\* anomaly; a clipboard change; a file creation.
SampleEvents ==
  { [Ev("window_blur") EXCEPT !.focused = FALSE],
    [Ev("window_blur") EXCEPT !.focused = TRUE, !.unfocusedDurationMs = 60000],
    [Ev("window_blur") EXCEPT !.focused = FALSE, !.unfocusedDurationMs = 120000],
    [Ev("typing") EXCEPT !.anomaly = TRUE],
    Ev("clipboard"),
    [Ev("file_operation") EXCEPT !.operation = "create"] }

\* Pastes of 600 and of 400 characters.
PasteEvents ==
  { [Ev("paste") EXCEPT !.length = 600], [Ev("paste") EXCEPT !.length = 400] }

\* Events that pass the validation, whose numbers eventDataSchema leaves
\* unconstrained (Joi.number()): pastes of 1200 and of -1200 characters,
\* windows unfocused for 700 s and for -700 s, a clipboard change.
PayloadEvents ==
  { [Ev("paste") EXCEPT !.length = 1200],
    [Ev("paste") EXCEPT !.length = 0 - 1200],
    [Ev("window_blur") EXCEPT !.focused = FALSE, !.unfocusedDurationMs = 700000],
    [Ev("window_blur") EXCEPT !.focused = FALSE, !.unfocusedDurationMs = 0 - 700000],
    [Ev("typing") EXCEPT !.anomaly = TRUE],
    Ev("clipboard") }

\* The handler's work on the document in memory for a batch of the one
\* event e: the switch of the loop, totalEvents, the recomputed score.
IngestEvent(e, limit) ==
  /\ participantDoc.totalEvents < limit
  /\ participantDoc' = docToSave(participantDoc, [NoBody EXCEPT !.events = <<e>>])
  /\ lastEvent' = e
  /\ UNCHANGED <<analysisDoc, commits, timingAnalysis, scoring>>
  /\ UNCHANGED notCalc

\* doc.recalculateSuspicion() on a document in memory.
Recalculate ==
  /\ analysisDoc' =
       [analysisDoc EXCEPT !.githubSuspicionScore = recalculateSuspicion(analysisDoc)]
  /\ UNCHANGED <<participantDoc, lastEvent, commits, timingAnalysis, scoring>>
  /\ UNCHANGED notCalc

\* The sub-signals of the documents recalculated: average commit scores,
\* numbers of idle bursts, highest similarities around the two thresholds.
AvgScores == {0, 200, 400, 1000}

MaxBursts == 3

Similarities == {0, 500, 510, 790, 800, 810, 1000}

----------------------------------------------------------------------------
(* The commit analysis: analyzeTimingDistribution *)

MaxCommits == 5

\* 5 * 60 * 1000
BURST_INTERVAL_MS == 300000

\* 30 * 60 * 1000
LONG_IDLE_MS == 1800000

\* The time between two commits: none, 4, 5, 30 and 31 minutes.
Gaps == {0, 240000, BURST_INTERVAL_MS, LONG_IDLE_MS, 1860000}

\* commits[i].date - commits[i - 1].date
gapBefore(cs, i) == cs[i] - cs[i - 1]

\* The look-ahead loop from commit j on: the commits that follow with less
\* than BURST_INTERVAL_MS to their predecessor, up to the first that does not.
RECURSIVE burstCountFrom(_, _, _)
burstCountFrom(cs, j, count) ==
  IF j > Len(cs) THEN count
  ELSE IF gapBefore(cs, j) < BURST_INTERVAL_MS
    THEN burstCountFrom(cs, j + 1, count + 1)
    ELSE count

\* The idleBursts of analyzeTimingDistribution(commits): for each commit i
\* after a long gap whose look-ahead count, started at 1, reaches 3.
idleBurstsOf(cs) ==
  { [ burstStartedAt |-> i, burstCommitCount |-> burstCountFrom(cs, i + 1, 1) ] :
      i \in { k \in 2 .. Len(cs) :
                /\ gapBefore(cs, k) > LONG_IDLE_MS
                /\ burstCountFrom(cs, k + 1, 1) >= 3 } }

NoTiming == [ done |-> FALSE, idleBursts |-> {} ]

\* analyzeTimingDistribution(commits)
AnalyzeTiming ==
  /\ ~timingAnalysis.done
  /\ timingAnalysis' = [ done |-> TRUE, idleBursts |-> idleBurstsOf(commits) ]
  /\ UNCHANGED <<participantDoc, lastEvent, analysisDoc, commits, scoring>>
  /\ UNCHANGED notCalc

\* The dates of the commits that start at date 0 and follow with the gaps gs.
RECURSIVE datesOf(_, _)
datesOf(gs, acc) ==
  IF gs = <<>> THEN acc
  ELSE datesOf(Tail(gs), Append(acc, acc[Len(acc)] + Head(gs)))

InitDocs ==
  /\ participantDoc = NewParticipant
  /\ lastEvent = Ev("")
  /\ scoring = NoScoring

InitTiming ==
  /\ commits = <<>>
  /\ timingAnalysis = NoTiming

InitCalc ==
  /\ InitDocs
  /\ InitTiming
  /\ analysisDoc = NewAnalysis

----------------------------------------------------------------------------
(* routes/github-monitor.js: monitorRepository on one analysis record and  *)
(* the commits of its repository                                           *)

MaxRepoCommits == 3

MaxClock == 3

MaxFaults == 1

\* The date a commit carries when it appears in the repository: it was
\* committed a tick ago and is pushed now, it is committed now, or the
\* committer's clock is a tick ahead of the server's.
CommitDates == {clock - 1, clock, clock + 1}

\* A record that no run has saved commits into: lastProcessedSha unset.
NewRecord == [ lastProcessedSha |-> 0, lastSyncAt |-> 0 ]

IdleRun ==
  [ pc |-> "idle", loaded |-> NewRecord, rawCommits |-> <<>>, window |-> <<>>,
    doc |-> NewRecord ]

\* const since = analysis.lastProcessedSha ? analysis.lastSyncAt : undefined
\* (0 stands for undefined: no date lies before it).
sinceOf(rec) == IF rec.lastProcessedSha # 0 THEN rec.lastSyncAt ELSE 0

\* octokit.paginate(listCommits, {since}): the commits dated since or
\* later, newest first.
RECURSIVE listCommits(_, _)
listCommits(rp, since) ==
  IF rp = <<>> THEN <<>>
  ELSE LET c == rp[Len(rp)]
           older == listCommits(SubSeq(rp, 1, Len(rp) - 1), since)
       IN IF c.date >= since THEN <<c>> \o older ELSE older

\* for (const rc of rawCommits) { if (lastProcessedSha && rc.sha ===
\* lastProcessedSha) break; commits.push(...) }
RECURSIVE walk(_, _)
walk(raw, lastSha) ==
  IF raw = <<>> THEN <<>>
  ELSE IF lastSha # 0 /\ Head(raw).sha = lastSha THEN <<>>
  ELSE <<Head(raw)>> \o walk(Tail(raw), lastSha)

\* Insertion of c into a list sorted by date, after the entries of the
\* same date.
RECURSIVE insertByDate(_, _)
insertByDate(sorted, c) ==
  IF sorted = <<>> THEN <<c>>
  ELSE IF Head(sorted).date <= c.date
    THEN <<Head(sorted)>> \o insertByDate(Tail(sorted), c)
    ELSE <<c>> \o sorted

\* commits.sort((a, b) => new Date(a.date) - new Date(b.date)): stable,
\* oldest first.
RECURSIVE sortByDate(_, _)
sortByDate(cs, acc) ==
  IF cs = <<>> THEN acc ELSE sortByDate(Tail(cs), insertByDate(acc, Head(cs)))

\* The document in memory at the await of analysis.save(): lastSyncAt = new
\* Date(), and with commits in the window lastProcessedSha =
\* commits[commits.length - 1].sha.
mergeWindow(loaded, window, now) ==
  IF window = <<>> THEN [loaded EXCEPT !.lastSyncAt = now]
  ELSE [ lastProcessedSha |-> window[Len(window)].sha, lastSyncAt |-> now ]

\* A failure of the remote or of the store.
fault ==
  /\ faults < MaxFaults
  /\ faults' = faults + 1

\* monitorRepository up to the await of fetchCommits: the record is loaded.
StartMonitor ==
  /\ run.pc = "idle"
  /\ run' = [IdleRun EXCEPT !.pc = "fetch", !.loaded = record]
  /\ UNCHANGED <<repo, clock, record, windows, faults>>
  /\ UNCHANGED notRepo

\* The run after fetchCommits returned raw: without a commit to analyse it
\* goes straight to the save, else to the detail fetches.
afterFetch(r, raw, now) ==
  IF walk(raw, r.loaded.lastProcessedSha) = <<>>
    THEN [r EXCEPT !.pc = "save", !.doc = mergeWindow(r.loaded, <<>>, now)]
    ELSE [r EXCEPT !.pc = "details", !.rawCommits = raw]

\* fetchCommits resolves with the listing.
FetchCommits ==
  /\ run.pc = "fetch"
  /\ run' = afterFetch(run, listCommits(repo, sinceOf(run.loaded)), clock)
  /\ UNCHANGED <<repo, clock, record, windows, faults>>
  /\ UNCHANGED notRepo

\* The listing answers 404: fetchCommits returns [].
FetchCommitsNotFound ==
  /\ run.pc = "fetch"
  /\ run' = afterFetch(run, <<>>, clock)
  /\ fault
  /\ UNCHANGED <<repo, clock, record, windows>>
  /\ UNCHANGED notRepo

\* The listing fails otherwise: fetchCommits throws, and so does the run.
FetchCommitsError ==
  /\ run.pc = "fetch"
  /\ run' = IdleRun
  /\ fault
  /\ UNCHANGED <<repo, clock, record, windows>>
  /\ UNCHANGED notRepo

\* The awaits of fetchCommitDetail are over (it never throws): the sort,
\* the analysis and the merge, up to the await of analysis.save().
Analyse ==
  /\ run.pc = "details"
  /\ LET window == sortByDate(walk(run.rawCommits, run.loaded.lastProcessedSha), <<>>)
     IN run' = [run EXCEPT !.pc = "save", !.rawCommits = <<>>, !.window = window,
                           !.doc = mergeWindow(run.loaded, window, clock)]
  /\ UNCHANGED <<repo, clock, record, windows, faults>>
  /\ UNCHANGED notRepo

\* await analysis.save() resolves: the record holds the merged results of
\* the commits of the window.
SaveAnalysis ==
  /\ run.pc = "save"
  /\ record' = run.doc
  /\ windows' = [n \in DOMAIN windows |->
                   IF \E i \in 1 .. Len(run.window) : run.window[i].sha = n
                     THEN Min(windows[n] + 1, 2) ELSE windows[n]]
  /\ run' = IdleRun
  /\ UNCHANGED <<repo, clock, faults>>
  /\ UNCHANGED notRepo

\* await analysis.save() rejects: nothing of the run is stored.
SaveAnalysisError ==
  /\ run.pc = "save"
  /\ run' = IdleRun
  /\ fault
  /\ UNCHANGED <<repo, clock, record, windows>>
  /\ UNCHANGED notRepo

\* A participant's commit appears in the repository.
CreateCommit(date) ==
  /\ Len(repo) < MaxRepoCommits
  /\ repo' = Append(repo, [ sha |-> Len(repo) + 1, date |-> date ])
  /\ UNCHANGED <<clock, record, run, windows, faults>>
  /\ UNCHANGED notRepo

\* Time passes.
Tick ==
  /\ clock < MaxClock
  /\ clock' = clock + 1
  /\ UNCHANGED <<repo, record, run, windows, faults>>
  /\ UNCHANGED notRepo

\* A registered repository without commits, its record just created.
InitRepo ==
  /\ repo = <<>>
  /\ clock = 1
  /\ record = NewRecord
  /\ run = IdleRun
  /\ windows = [n \in 1 .. MaxRepoCommits |-> 0]
  /\ faults = 0

----------------------------------------------------------------------------
(* coding-contest-monitor/extension.js: EventQueue *)

MaxTyped == 2

\* getConfigNumber('batchSize', 100): the configured batch size.
BatchSize == 2

maxRetries == 3

AgentMachine == "m1"

\* What the monitors hand to _emit: a paste, a change of a file whose
\* relative path is longer than 500 characters, a typing burst.
AgentEvents ==
  { [Ev("paste") EXCEPT !.timestamp = 1, !.length = 1200],
    [Ev("file_change") EXCEPT !.timestamp = 2, !.file = MaxFileLen + 1],
    [Ev("typing") EXCEPT !.timestamp = 3] }

Timestamps(evs) == {evs[i].timestamp : i \in 1 .. Len(evs)}

IdleFlight == [ pc |-> "idle", batch |-> <<>>, patternSnapshot |-> 0, wait |-> 0 ]

\* JSON.stringify({events: batch, typingPattern: patternSnapshot, participant})
payload(f) ==
  [ machineId |-> AgentMachine, events |-> f.batch,
    typingPattern |-> f.patternSnapshot ]

\* _emit → push(event): this._queue.push(event)
Push(e) ==
  /\ e.timestamp \notin pushed
  /\ pushed' = pushed \cup {e.timestamp}
  /\ queue' = Append(queue, e)
  /\ pushOrder' = Append(pushOrder, e)
  /\ UNCHANGED <<typingPattern, uploading, retryCount, flight, typed, persisted, uploaded>>
  /\ UNCHANGED notAgent

\* recordTypingInterval: push, then keep the last 4000 once over 5000.
RecordTyping ==
  /\ typed < MaxTyped
  /\ typed' = typed + 1
  /\ typingPattern' = IF typingPattern + 1 > 5000 THEN 4000 ELSE typingPattern + 1
  /\ UNCHANGED <<queue, uploading, retryCount, flight, pushed, persisted,
                 pushOrder, uploaded>>
  /\ UNCHANGED notAgent

\* flush() up to the first await of _post: the early returns, the drain of
\* up to batchSize events, the snapshot of the typing pattern.
Flush ==
  /\ ~uploading
  /\ ~(Len(queue) = 0 /\ typingPattern = 0)
  /\ uploading' = TRUE
  /\ flight' = [ pc |-> "post",
                 batch |-> SubSeq(queue, 1, Min(BatchSize, Len(queue))),
                 patternSnapshot |-> typingPattern,
                 wait |-> 0 ]
  /\ queue' = SubSeq(queue, Min(BatchSize, Len(queue)) + 1, Len(queue))
  /\ typingPattern' = 0
  /\ retryCount' = 0
  /\ UNCHANGED <<pushed, typed, persisted, pushOrder, uploaded>>
  /\ UNCHANGED notAgent

\* _post resolved: the server validated the payload, stored the events and
\* answered 2xx; success = true ends the loop.
PostAccepted ==
  /\ flight.pc = "post"
  /\ validateEventsPayload(payload(flight))
  /\ persisted' = persisted \cup Timestamps(flight.batch)
  /\ flight' = IdleFlight
  /\ uploaded' = uploaded \cup Timestamps(flight.batch)
  /\ uploading' = FALSE
  /\ UNCHANGED <<queue, typingPattern, retryCount, pushed, typed, pushOrder>>
  /\ UNCHANGED notAgent

\* const backoff = Math.pow(2, this._retryCount) * 1000
backoff(n) == (2 ^ n) * 1000

requeueAtTail(batch, q) == q \o batch

\* this._queue.unshift(...batch)
requeue(batch, q) == batch \o q

\* The catch block of the loop and what follows it: count the attempt, then
\* sleep before the next one, or leave the loop and put the batch and the
\* snapshot back at the front.
onPostError ==
  /\ retryCount' = retryCount + 1
  /\ IF retryCount + 1 <= maxRetries
       THEN /\ flight' = [flight EXCEPT !.pc = "sleep", !.wait = backoff(retryCount + 1)]
            /\ UNCHANGED <<queue, typingPattern, uploading>>
       ELSE /\ queue' = requeue(flight.batch, queue)
            /\ typingPattern' = flight.patternSnapshot + typingPattern
            /\ flight' = IdleFlight
            /\ uploading' = FALSE

\* _post rejected: the server answered 400 to a payload its schema refuses.
PostRejected ==
  /\ flight.pc = "post"
  /\ ~validateEventsPayload(payload(flight))
  /\ onPostError
  /\ UNCHANGED <<pushed, typed, persisted, pushOrder, uploaded>>
  /\ UNCHANGED notAgent

\* _post rejected for another reason: connection error, the 15 s timeout, a
\* 429 or a 500. With a timeout or a 500 the server may have stored the
\* events of a valid payload all the same.
PostFailed(stored) ==
  /\ flight.pc = "post"
  /\ stored => validateEventsPayload(payload(flight))
  /\ persisted' = IF stored THEN persisted \cup Timestamps(flight.batch) ELSE persisted
  /\ onPostError
  /\ UNCHANGED <<pushed, typed, pushOrder, uploaded>>
  /\ UNCHANGED notAgent

\* await sleep(backoff) is over: the loop makes its next attempt.
Backoff ==
  /\ flight.pc = "sleep"
  /\ flight' = [flight EXCEPT !.pc = "post", !.wait = 0]
  /\ UNCHANGED <<queue, typingPattern, uploading, retryCount, pushed, typed, persisted,
                 pushOrder, uploaded>>
  /\ UNCHANGED notAgent

\* A fresh queue holding n typing intervals.
InitAgent(n) ==
  /\ queue = <<>>
  /\ typingPattern = n
  /\ uploading = FALSE
  /\ retryCount = 0
  /\ flight = IdleFlight
  /\ pushed = {}
  /\ typed = 0
  /\ persisted = {}
  /\ pushOrder = <<>>
  /\ uploaded = {}

InitSync ==
  /\ isRunning = FALSE
  /\ cyc = [s \in Slots |-> IdleCycle]
  /\ mon = [c \in MonCallers |-> IdleMon]
  /\ xc = [c \in XcCallers |-> IdleXc]
  /\ analyses = [p \in Participants |-> NoAnalysis]
  /\ sched = [triggers |-> 0, skipped |-> 0, startup |-> FALSE]

\* The stores are empty and no request is in flight; the limiter's window
\* has seen h requests of each key.
InitIngest(h) ==
  /\ participants = [m \in MachineIds |-> NoParticipant]
  /\ eventRows = [m \in MachineIds |-> 0]
  /\ patterns = [m \in MachineIds |-> 0]
  /\ reqs = [r \in ReqSlots |-> IdleReq]
  /\ hits = [m \in MachineIds |-> h]
  /\ verdict = [m \in MachineIds |-> "none"]
  /\ arrived = 0
  /\ responses = [c \in Statuses |-> 0]
  /\ lastError = ""
  /\ emitted = [alert |-> 0, updated |-> 0]
  /\ received = [s \in Sockets |-> [f \in Frames |-> 0]]
  /\ accepted = [m \in MachineIds |-> <<>>]
  /\ sockets = [s \in Sockets |-> NoSocket]

Init == InitSync /\ InitIngest(0) /\ InitAgent(0) /\ InitCalc /\ InitRepo

\* The scheduler with its cycles, beside manual syncs of the dashboard.
Next ==
  \/ \E s \in Slots : CronTick(s)
  \/ \E s \in Slots : StartupRun(s)
  \/ \E s \in Slots : CycleFind(s)
  \/ \E p \in Participants : ManualSync(p)
  \/ \E c \in MonCallers : MonLoad(c)
  \/ \E c \in MonCallers : MonSave(c)
  \/ \E c \in Slots : XcFetch(c)
  \/ \E c \in Slots : XcPersist(c)
  \/ \E c \in Slots : XcRecalcLoad(c)
  \/ \E c \in Slots : XcRecalcSave(c)
  \/ \E p \in Participants : Register(p)

Spec == Init /\ [][Next]_vars

\* The scheduler alone: the triggers and the cycles they run, over
\* repositories registered at any time.
NextCycles ==
  \/ \E s \in Slots : CronTick(s)
  \/ \E s \in Slots : StartupRun(s)
  \/ \E s \in Slots : CycleFind(s)
  \/ \E c \in Slots : MonLoad(c)
  \/ \E c \in Slots : MonSave(c)
  \/ \E c \in Slots : XcFetch(c)
  \/ \E c \in Slots : XcPersist(c)
  \/ \E c \in Slots : XcRecalcLoad(c)
  \/ \E c \in Slots : XcRecalcSave(c)
  \/ \E p \in Participants : Register(p)

\* Every await of a cycle settles: the store and the remote answer or fail,
\* and the event loop resumes the cycle.
FairSpecCycles ==
  /\ Init /\ [][NextCycles]_vars
  /\ \A s \in Slots :
       /\ WF_vars(CycleFind(s))
       /\ WF_vars(MonLoad(s))
       /\ WF_vars(MonSave(s))
       /\ WF_vars(XcFetch(s))
       /\ WF_vars(XcPersist(s))
       /\ WF_vars(XcRecalcLoad(s))
       /\ WF_vars(XcRecalcSave(s))

\* The dashboard's requests on the analysis records: registrations, manual
\* syncs and on-demand comparisons, a sync and a comparison in flight at
\* the same time.
NextAnalysis ==
  \/ \E p \in Participants : Register(p)
  \/ \E p \in Participants : ManualSync(p)
  \/ \E c \in {ManualCaller} : MonLoad(c)
  \/ \E c \in {ManualCaller} : MonSave(c)
  \/ \E p1, p2 \in Participants, t \in Thresholds : Compare(p1, p2, t)
  \/ \E c \in {CompareCaller} : XcFetch(c)
  \/ \E c \in {CompareCaller} : XcPersist(c)
  \/ \E c \in {CompareCaller} : XcRecalcLoad(c)
  \/ \E c \in {CompareCaller} : XcRecalcSave(c)

SpecAnalysis == Init /\ [][NextAnalysis]_vars

\* The ingest of event batches: the limiter's window has room for two more
\* requests of each key, as after requests that failed the validation.
InitNearLimit ==
  InitSync /\ InitIngest(LimiterMax - 2) /\ InitAgent(0) /\ InitCalc /\ InitRepo

NextIngest ==
  \/ \E r \in ReqSlots, body \in Bodies : Arrive(r, body)
  \/ \E r \in ReqSlots : Upsert(r)
  \/ \E r \in ReqSlots : Context(r)
  \/ \E r \in ReqSlots : Insert(r)
  \/ \E r \in ReqSlots : PatternLoad(r)
  \/ \E r \in ReqSlots : PatternSave(r)
  \/ \E r \in ReqSlots : Save(r)

SpecIngest == InitNearLimit /\ [][NextIngest]_vars

\* The ingest of event batches from an empty window of the limiter: three
\* batches of one machine can pass.
SpecBatches == Init /\ [][NextIngest]_vars

\* The limiter alone, over a window and its expiry.
NextLimiter ==
  \/ \E key \in MachineIds : LimiterRequest(key)
  \/ \E key \in MachineIds : WindowExpire(key)

SpecLimiter == Init /\ [][NextLimiter]_vars

\* The live channel: clients connect, join rooms and leave, while batches
\* of two machines are ingested one after the other, one that raises an
\* alert and one that does not.
LiveBodies == {BlurBody, OtherBody}

NextLive ==
  \/ \E s \in Sockets, cred \in Credentials : Connect(s, cred)
  \/ \E s \in Sockets : JoinDashboard(s)
  \/ \E s \in Sockets, m \in MachineIds : WatchParticipant(s, m)
  \/ \E s \in Sockets : Disconnect(s)
  \/ \E body \in LiveBodies : Arrive(1, body)
  \/ Upsert(1)
  \/ Context(1)
  \/ Insert(1)
  \/ PatternLoad(1)
  \/ PatternSave(1)
  \/ Save(1)

SpecLive == Init /\ [][NextLive]_vars

\* The counters of a new participant under the events of the agent.
NextCounters ==
  \/ \E e \in SampleEvents : IngestEvent(e, MaxEvents)
  \/ \E e \in PasteEvents : IngestEvent(e, MaxEvents)

SpecCounters == Init /\ [][NextCounters]_vars

\* recalculateSuspicion on documents with a score not yet computed.
InitScore ==
  /\ InitSync /\ InitIngest(0) /\ InitAgent(0) /\ InitDocs /\ InitTiming /\ InitRepo
  /\ \E avg \in AvgScores, n \in 0 .. MaxBursts, hs \in Similarities :
       analysisDoc = [NewAnalysis EXCEPT !.avgCommitSuspicionScore = avg,
                                         !.idleBursts = n,
                                         !.highestSimilarity = hs]

SpecScore == InitScore /\ [][Recalculate]_vars

\* analyzeTimingDistribution on the commit sequences of up to MaxCommits
\* commits, in chronological order.
InitCommits ==
  /\ InitSync /\ InitIngest(0) /\ InitAgent(0) /\ InitDocs /\ InitRepo
  /\ analysisDoc = NewAnalysis
  /\ timingAnalysis = NoTiming
  /\ \E n \in 0 .. MaxCommits - 1 : \E gs \in [1 .. n -> Gaps] :
       commits = datesOf(gs, <<0>>)

SpecTiming == InitCommits /\ [][AnalyzeTiming]_vars

\* calculateEventSuspicion on events, typing statistics and contexts around
\* the thresholds of its rules.
InitEvents ==
  /\ InitSync /\ InitIngest(0) /\ InitAgent(0) /\ InitTiming /\ InitRepo
  /\ participantDoc = NewParticipant
  /\ lastEvent = Ev("")
  /\ analysisDoc = NewAnalysis
  /\ \E e \in ScoredEvents, t \in TypingStats, c \in RecentContexts :
       scoring = [NoScoring EXCEPT !.event = e, !.typingStats = t,
                                  !.recentContext = c]

SpecEvents == InitEvents /\ [][ScoreEvent]_vars

\* Batches of one event each, processed one after the other, of every
\* payload that passes the validation.
NextPayloads == \E e \in PayloadEvents : validEvent(e) /\ IngestEvent(e, MaxEvents)

SpecPayloads == Init /\ [][NextPayloads]_vars

\* A new participant that pastes again and again.
NextPastes == \E e \in PasteEvents : IngestEvent(e, MaxPastes)

SpecPastes == Init /\ [][NextPastes]_vars

\* The runs of monitorRepository on one record, one after the other, while
\* commits appear in the repository and time passes.
NextRepo ==
  \/ StartMonitor
  \/ FetchCommits
  \/ FetchCommitsNotFound
  \/ FetchCommitsError
  \/ Analyse
  \/ SaveAnalysis
  \/ SaveAnalysisError
  \/ \E date \in CommitDates : CreateCommit(date)
  \/ Tick

SpecRepo == Init /\ [][NextRepo]_vars

\* Runs keep happening, and every await of a run settles.
FairSpecRepo ==
  /\ SpecRepo
  /\ WF_vars(StartMonitor)
  /\ WF_vars(FetchCommits)
  /\ WF_vars(Analyse)
  /\ WF_vars(SaveAnalysis)

\* The agent's upload queue against the server. The typing pattern is empty
\* or holds the 5000 intervals that the rolling window keeps at most.
InitAgentSpec ==
  /\ InitSync /\ InitIngest(0) /\ InitCalc /\ InitRepo
  /\ \E n \in {0, MaxPatternLen} : InitAgent(n)

NextAgent ==
  \/ \E e \in AgentEvents : Push(e)
  \/ RecordTyping
  \/ Flush
  \/ PostAccepted
  \/ PostRejected
  \/ \E stored \in BOOLEAN : PostFailed(stored)
  \/ Backoff

\* The timer keeps calling flush, every attempt and every sleep ends, and
\* the server is reachable again and again: a payload that is posted again
\* and again and that the server would accept is accepted in the end.
FairSpecAgent ==
  /\ InitAgentSpec /\ [][NextAgent]_vars
  /\ WF_vars(Flush)
  /\ WF_vars(Backoff)
  /\ WF_vars(PostRejected)
  /\ SF_vars(PostAccepted)

----------------------------------------------------------------------------
(* The scheduler *)

InBody(s) == cyc[s].pc # "idle"

\* C1: under any interleaving of cron ticks and the startup run, at most one
\* runSync invocation is inside the cycle body at any instant, and the
\* isRunning flag is set exactly while one is.
C1_MutualExclusion ==
  /\ Cardinality({s \in Slots : InBody(s)}) <= 1
  /\ isRunning <=> \E s \in Slots : InBody(s)

\* A trigger fired while a cycle was in its body, and the cycle goes on.
C1_Witness == sched.skipped >= 1 /\ \E s \in Slots : cyc[s].pc = "cross"

\* C8: a failure of monitorRepository for one repository does not stop the
\* cycle: while the cycle is in its loop, monitorRepository runs for the
\* repository the loop is at; the loop only moves on by one repository
\* of the same list; it is left only after the last repository, and then
\* for the cross-comparison of the whole list whenever two or more
\* repositories were enumerated.
C8_LoopInv ==
  \A s \in Slots :
    /\ cyc[s].pc = "monitor" =>
          /\ cyc[s].i \in 1 .. Len(cyc[s].list)
          /\ mon[s].pc # "idle" /\ mon[s].pid = cyc[s].list[cyc[s].i]
          /\ cyc[s].errorCount < cyc[s].i
    /\ cyc[s].pc = "cross" =>
          /\ Len(cyc[s].list) >= 2
          /\ cyc[s].i = Len(cyc[s].list)
          /\ xc[s].pc # "idle" /\ xc[s].repos = cyc[s].list

C8_LoopStep ==
  \A s \in Slots :
    cyc[s].pc = "monitor" =>
      /\ cyc'[s].pc \in {"monitor", "cross", "idle"}
      /\ cyc'[s].pc = "monitor" =>
            /\ cyc'[s].list = cyc[s].list
            /\ cyc'[s].i \in {cyc[s].i, cyc[s].i + 1}
      /\ cyc'[s].pc # "monitor" => cyc[s].i = Len(cyc[s].list)
      /\ cyc'[s].pc = "idle" => Len(cyc[s].list) < 2

C8_FailureDoesNotStopCycle == []C8_LoopInv /\ [][C8_LoopStep]_vars

\* The cross-comparison is reached in a cycle in which every
\* monitorRepository call failed.
C8_Witness ==
  \E s \in Slots :
    cyc[s].pc = "cross" /\ cyc[s].errorCount = Len(cyc[s].list)

\* C9: a trigger that fires while a cycle is running is skipped: the step
\* leaves the flag set and changes neither an invocation nor a record; a
\* trigger that fires while the flag is set is always skipped; and a cycle
\* only starts in the step of a trigger that is not skipped, so a skipped
\* trigger causes no cycle later.
C9_Step ==
  /\ sched'.skipped # sched.skipped =>
        /\ isRunning /\ isRunning'
        /\ UNCHANGED <<cyc, mon, xc, analyses>>
  /\ (sched'.triggers # sched.triggers /\ isRunning) =>
        sched'.skipped = sched.skipped + 1
  /\ \A s \in Slots :
        (~InBody(s) /\ cyc'[s].pc # "idle") =>
          /\ ~isRunning
          /\ sched'.triggers = sched.triggers + 1
          /\ sched'.skipped = sched.skipped

C9_SkippedTrigger == [][C9_Step]_vars

\* A trigger was skipped, the cycle it met is over, and no cycle runs.
C9_Witness ==
  /\ sched.skipped >= 1 /\ ~isRunning
  /\ \A s \in Slots : ~InBody(s)


\* C29: every sync cycle that starts eventually clears isRunning, on
\* normal completion, on the early return when no repository is registered,
\* and when the cycle fails, so that a later trigger is not skipped.
C29_FlagCleared == isRunning ~> ~isRunning

\* A cycle is over with its flag cleared, and the next trigger, not
\* skipped, runs a new cycle.
C29_Witness ==
  /\ sched.triggers = 2 /\ sched.skipped = 0
  /\ \E s \in Slots : cyc[s].pc = "monitor"

\* C28: the read-merge-persist of monitorRepository on one analysis record
\* is never executed by two callers at overlapping times: no manual sync
\* runs monitorRepository on a record while a cycle runs it on that record.
C28_OneMonitorPerRecord ==
  \A c1, c2 \in MonCallers :
    (c1 # c2 /\ mon[c1].pc # "idle" /\ mon[c2].pc # "idle") =>
       mon[c1].pid # mon[c2].pid

----------------------------------------------------------------------------
(* The analysis records *)

AtRest ==
  /\ \A s \in Slots : ~InBody(s)
  /\ \A c \in MonCallers : mon[c].pc = "idle"
  /\ \A c \in XcCallers : xc[c].pc = "idle"

ScoreIsCurrent(doc) == doc.githubSuspicionScore = recalculateSuspicion(doc)

\* C3: in every persisted state of an analysis record,
\* githubSuspicionScore equals the score recalculateSuspicion computes from
\* the fields stored in that same state.
C3_ScoreIsFunction ==
  \A p \in Participants : analyses[p].exists => ScoreIsCurrent(analyses[p])

\* The same for the states in which no operation is in flight.
C3_ScoreIsFunctionAtRest == AtRest => C3_ScoreIsFunction

MatchSims(doc) ==
  [i \in 1 .. Len(doc.similarityMatches) |-> doc.similarityMatches[i].similarity]

C4_HsIsMax ==
  \A p \in Participants :
    analyses[p].highestSimilarity = SeqMax(MatchSims(analyses[p]))

C4_HsStep ==
  \A p \in Participants :
    analyses'[p].highestSimilarity >= analyses[p].highestSimilarity

\* C4: after any sequence of registrations, monitorRepository runs and
\* comparisons, a record's highestSimilarity is the maximum similarity over
\* its similarityMatches (0 for an empty list), and no step decreases it.
C4_HighestSimilarity == []C4_HsIsMax /\ [][C4_HsStep]_vars

\* A record holds a higher match followed by a lower one, and a
\* monitorRepository run has saved its analysis into the record.
C4_Witness ==
  \E p \in Participants :
    /\ Len(analyses[p].similarityMatches) >= 2
    /\ analyses[p].similarityMatches[1].similarity
         > analyses[p].similarityMatches[2].similarity
    /\ analyses[p].avgCommitSuspicionScore > 0


----------------------------------------------------------------------------
(* The ingest of event batches *)

ScoreOfCounters(doc) ==
  doc.suspicionScore = calculateParticipantSuspicion(doc.stats)

\* C2: after every batch that completes successfully, whatever the
\* interleaving of the batches of one machineId, the persisted
\* suspicionScore is calculateParticipantSuspicion of the persisted
\* counters. The stored document changes only when the upsert creates it
\* (zero counters, score 0) and when a batch's final save succeeds, so this
\* is stated for every state.
C2_ScoreIsFunction ==
  \A m \in MachineIds : participants[m].exists => ScoreOfCounters(participants[m])

C5_Step ==
  (responses'[400] # responses[400] \/ responses'[429] # responses[429]) =>
     UNCHANGED <<participants, eventRows, patterns, emitted, reqs>>

\* C5: the step that answers a request 429 (rate limiter) or 400 (payload
\* validation) changes no stored participant, event or typing pattern, emits
\* no frame, and starts no handler that could do so later.
C5_RejectedHasNoEffect == [][C5_Step]_vars

\* A request was answered 400 and another 429 while a handler is in flight
\* on a stored participant.
C5_Witness ==
  /\ responses[400] >= 1 /\ responses[429] >= 1
  /\ \E r \in ReqSlots : reqs[r].pc = "save"
  /\ participants["m1"].exists

C6_Inv ==
  \A key \in MachineIds :
    hits[key] >= 1 =>
      /\ verdict[key] = "next" <=> hits[key] <= 100
      /\ verdict[key] = "429" <=> hits[key] >= 101

C6_Step ==
  \A key \in MachineIds :
    hits'[key] # hits[key] =>
      \A other \in MachineIds \ {key} :
        hits'[other] = hits[other] /\ verdict'[other] = verdict[other]

\* C6: within one window the first 100 requests of a machineId pass the
\* limiter and the 101st (and every later one) is answered 429; a request
\* of one machineId changes neither the count nor the verdict of another.
C6_Limiter == []C6_Inv /\ [][C6_Step]_vars

\* The 101st request of m1 was rejected while the 100th of m2 passed.
C6_Witness ==
  /\ hits["m1"] = 101 /\ verdict["m1"] = "429"
  /\ hits["m2"] = 100 /\ verdict["m2"] = "next"

\* C10: a failure of an individual row of the bulk append does not abort
\* the ingest: no request is answered 500 because insertMany met a row the
\* store refused.
C10_RowFailureDoesNotAbort == lastError # "insertMany row"


StoreSteps == {"upsert", "context", "pattern", "save"}

C11_Step ==
  (lastError' \in StoreSteps /\ responses'[500] # responses[500]) =>
     /\ responses'[500] = responses[500] + 1
     /\ responses'[200] = responses[200]
     /\ emitted' = emitted
     /\ \E r \in ReqSlots :
          /\ reqs[r].pc # "idle" /\ reqs'[r] = IdleReq
          /\ \A q \in ReqSlots \ {r} : reqs'[q] = reqs[q]

\* C11: when the participant upsert, a context read, the typing-pattern
\* read or write, or the participant's save fails, the request is answered
\* 500 in that step, the step emits neither an alert nor a
\* participant:updated frame, and the request is over, so that no later
\* step emits one for it.
C11_StoreFailure == [][C11_Step]_vars

\* The participant's save of one request failed after another request of
\* the same machine had succeeded and been broadcast.
C11_Witness ==
  /\ lastError = "save" /\ responses[500] >= 1
  /\ responses[200] >= 1 /\ emitted.updated >= 1

\* No request of machine m is in flight.
Quiet(m) == \A r \in ReqSlots : reqs[r].pc = "idle" \/ reqs[r].body.machineId # m

AggregateCounters ==
  {"pasteCount", "pasteCharsTotal", "typingAnomalies", "windowBlurCount",
   "clipboardChanges", "filesCreated", "filesDeleted"}

\* C24: no counter update is lost: when the ingest batches of a machineId
\* have completed, in any interleaving, the participant's totalEvents is
\* the number of events of the batches that succeeded, and each aggregate
\* counter is what the events of those batches add up to.
C24_NoLostUpdate ==
  \A m \in MachineIds :
    (participants[m].exists /\ Quiet(m)) =>
       /\ participants[m].totalEvents = Len(accepted[m])
       /\ \A f \in AggregateCounters :
            participants[m].stats[f] = applyEvents(NoStats, accepted[m])[f]

\* C16: in every persisted state, whatever the sequence or interleaving of
\* the ingest batches (each with at most 5000 intervals), the typing
\* pattern of a participant holds at most 10000 intervals.
C16_PatternCap == \A m \in MachineIds : patterns[m] <= 10000

----------------------------------------------------------------------------
(* The score of an event *)

\* The scoring table: the contribution of each rule whose condition holds.
Contribution(holds, points) == IF holds THEN points ELSE 0

\* C23: for every event, typing statistics and recent context,
\* calculateEventSuspicion returns min(1.0, the sum of the contributions of
\* the rules of the scoring table whose condition holds): paste over 500
\* characters 0.9, paste over 100 and up to 500 characters 0.6, fast typing
\* anomaly 0.4, fast average typing 0.4, high variance 0.3, long blur 0.2,
\* clipboard burst 0.3, file created without typing 0.5.
C23_EventScore ==
  LET e == scoring.event
      t == scoring.typingStats
      c == scoring.recentContext
      paste == e.type = "paste"
  IN scoring.done =>
       scoring.score =
         Min(1000,
             Contribution(paste /\ e.length > 500, 900)
           + Contribution(paste /\ 100 < e.length /\ e.length <= 500, 600)
           + Contribution(e.type = "typing" /\ e.anomaly = "fast_typing"
                            /\ 0 < e.interval /\ e.interval < 30, 400)
           + Contribution(t.avgInterval > 0 /\ t.avgInterval < 30, 400)
           + Contribution(t.variance > 15000, 300)
           + Contribution(e.type = "window_blur" /\ e.focused = FALSE
                            /\ e.unfocusedDurationMs > 120000, 200)
           + Contribution(e.type = "clipboard" /\ c.clipboardChanges60s > 5, 300)
           + Contribution(e.type = "file_operation" /\ e.operation = "create"
                            /\ c.hadTypingBefore = "false", 500))

\* A paste of 500 characters scored 0.6, plus 0.4 for a fast average typing
\* interval and 0.3 for a high variance: clamped at 1.0.
C23_Witness ==
  /\ scoring.done
  /\ scoring.event.type = "paste" /\ scoring.event.length = 500
  /\ scoring.typingStats.avgInterval = 29 /\ scoring.typingStats.variance = 15001
  /\ scoring.score = 1000

----------------------------------------------------------------------------
(* The counters *)

C17_Step ==
  LET e == lastEvent'
      old == participantDoc.stats
      new == participantDoc'.stats
  IN participantDoc' # participantDoc =>
       IF e.type = "window_blur" /\ e.focused = FALSE
         THEN /\ new.windowBlurCount = old.windowBlurCount + 1
              /\ new.windowBlurTotalMs = old.windowBlurTotalMs + e.unfocusedDurationMs
         ELSE /\ new.windowBlurCount = old.windowBlurCount
              /\ new.windowBlurTotalMs = old.windowBlurTotalMs

\* C17: the ingest of a window_blur event with focused = false adds 1 to
\* windowBlurCount and data.unfocusedDurationMs to windowBlurTotalMs; the
\* ingest of a window_blur event with focused = true, and of an event of
\* any other kind, leaves both counters as they were.
C17_WindowBlur == [][C17_Step]_vars

C30_Step ==
  participantDoc' # participantDoc =>
    /\ \A f \in DOMAIN participantDoc.stats :
         participantDoc'.stats[f] >= participantDoc.stats[f]
    /\ participantDoc'.totalEvents >= participantDoc.totalEvents
    /\ participantDoc'.suspicionScore >= participantDoc.suspicionScore

\* C30: for ingest batches processed one after another, the participant's
\* aggregate counters and suspicionScore never decrease from one
\* successful ingest to the next, whatever valid payload is submitted.
C30_Monotone == [][C30_Step]_vars

\* C18: a new participant after one paste of 600 characters and 50 pastes
\* of 400 characters (pasteCount 51, pasteCharsTotal 20600, the other
\* counters 0) has a suspicionScore of at least 0.7 and the alert level
\* critical.
C18_PasteScenario ==
  ( /\ participantDoc.stats.pasteCount = 51
    /\ participantDoc.stats.pasteCharsTotal = 20600 ) =>
     /\ participantDoc.suspicionScore >= 700
     /\ alertLevel(participantDoc) = "critical"

----------------------------------------------------------------------------
(* The score of an analysis *)

WithoutSimilarity(doc) == recalculateSuspicion([doc EXCEPT !.highestSimilarity = 0])

\* C19: in a recalculated score, a highestSimilarity of 0.80 contributes
\* the full 0.4 and a highestSimilarity of 0.79 contributes 0.3 * 0.79 =
\* 0.237, on top of the score of the other sub-signals (up to the cap 1.0).
C19_Threshold ==
  analysisDoc.githubSuspicionScore # 0 =>
    /\ analysisDoc.highestSimilarity = 800 =>
         analysisDoc.githubSuspicionScore =
           Min(WithoutSimilarity(analysisDoc) + 400, 1000)
    /\ analysisDoc.highestSimilarity = 790 =>
         analysisDoc.githubSuspicionScore =
           Min(WithoutSimilarity(analysisDoc) + 237, 1000)

----------------------------------------------------------------------------
(* The idle bursts *)

ShortGap(i) == i <= Len(commits) /\ gapBefore(commits, i) < BURST_INTERVAL_MS

\* C20: for a chronologically ordered commit sequence,
\* analyzeTimingDistribution emits an idleBurst for a commit if and only if
\* its gap to the predecessor is more than 30 minutes and the three commits
\* after it exist and each come less than 5 minutes after their own
\* predecessor.
C20_IdleBurst ==
  timingAnalysis.done =>
    \A i \in 2 .. Len(commits) :
      (\E b \in timingAnalysis.idleBursts : b.burstStartedAt = i)
        <=> ( /\ gapBefore(commits, i) > LONG_IDLE_MS
              /\ ShortGap(i + 1) /\ ShortGap(i + 2) /\ ShortGap(i + 3) )

----------------------------------------------------------------------------
(* The similarity matches *)

CountOf(matches, e) == Cardinality({i \in 1 .. Len(matches) : matches[i] = e})

Mirror(p, e) == matchEntry(p, e.file2, e.file1, e.similarity)

\* C15: when no comparison is between the updates of its persist loop
\* (every cross-comparison and on-demand compare has completed, with or
\* without a failed store update), each match entry of participant A naming
\* B with (file1, file2, similarity) has its mirror entry, naming A with
\* the files swapped and the same similarity, in B's record.
C15_Symmetric ==
  (\A c \in XcCallers : xc[c].pc # "persist") =>
    \A p \in Participants :
      \A i \in 1 .. Len(analyses[p].similarityMatches) :
        LET e == analyses[p].similarityMatches[i]
            o == e.otherParticipantId
        IN CountOf(analyses[p].similarityMatches, e)
             = CountOf(analyses[o].similarityMatches, Mirror(p, e))

\* C27: a sync cycle is idempotent on the similarity results: a file pair
\* recorded for a pair of participants is not appended again by a later
\* cycle over unchanged repositories, so no record holds an entry twice.
C27_Idempotent ==
  \A p \in Participants :
    \A i, j \in 1 .. Len(analyses[p].similarityMatches) :
      i < j => analyses[p].similarityMatches[i] # analyses[p].similarityMatches[j]

----------------------------------------------------------------------------
(* The live channel *)

\* The request whose save resolves in this step, if the step answers 200.
Succeeds(r) ==
  /\ reqs[r].pc = "save" /\ reqs'[r] = IdleReq
  /\ responses'[200] = responses[200] + 1

InRoom(s, room) == sockets[s].connected /\ room \in sockets[s].rooms

Gets(s, frame, n) == received'[s][frame] = received[s][frame] + n

C12_Level(doc) ==
  IF doc.suspicionScore > 700 THEN "critical"
  ELSE IF doc.stats.pasteCount > 10 \/ doc.stats.windowBlurTotalMs > 600000
    THEN "warning"
    ELSE "none"

C12_Step ==
  /\ emitted' # emitted => responses'[200] = responses[200] + 1
  /\ responses'[200] # responses[200] =>
       \E r \in ReqSlots :
         /\ Succeeds(r)
         /\ LET m == reqs[r].body.machineId
                doc == docToSave(reqs[r].loaded, reqs[r].body)
                alerts == IF C12_Level(doc) # "none" THEN 1 ELSE 0
            IN /\ participants'[m] = saveParticipant(participants[m], reqs[r].loaded, doc)
               /\ emitted'.updated = emitted.updated + 1
               /\ emitted'.alert = emitted.alert + alerts
               /\ \A s \in Sockets :
                    InRoom(s, dashboardRoom) =>
                      /\ Gets(s, <<"participant:updated", m>>, 1)
                      /\ Gets(s, <<"alert", m>>, alerts)

\* C12: frames are emitted only by the step in which an ingest succeeds;
\* that step persists the participant, emits exactly one
\* participant:updated frame to room "dashboard", and emits an alert frame
\* to room "dashboard" if and only if the level of the updated participant
\* (critical iff score > 0.7, else warning iff pasteCount > 10 or
\* windowBlurTotalMs > 600000, else none) is not none.
C12_Frames == [][C12_Step]_vars

\* A dashboard observer has received an alert for m1 and an update without
\* alert for m2.
C12_Witness ==
  /\ \E s \in Sockets :
       /\ received[s][<<"alert", "m1">>] >= 1
       /\ received[s][<<"participant:updated", "m2">>] >= 1
       /\ received[s][<<"alert", "m2">>] = 0
  /\ emitted.updated > emitted.alert

C13_Step ==
  \A r \in ReqSlots : Succeeds(r) =>
    LET m == reqs[r].body.machineId
    IN \A s \in Sockets :
         /\ InRoom(s, participantRoom(m)) => Gets(s, <<"participant:updated", m>>, 1)
         /\ InRoom(s, dashboardRoom) => Gets(s, <<"participant:updated", m>>, 1)
         /\ ~InRoom(s, dashboardRoom) =>
              \A o \in MachineIds \ {m} : \A n \in FrameNames : Gets(s, <<n, o>>, 0)

\* C13: an observer that joined room participant:<id> receives the
\* participant:updated frame of every successful ingest of that
\* participant and no frame about another participant; an observer that
\* joined room "dashboard" receives the update of every participant.
C13_Rooms == [][C13_Step]_vars

C14_Step ==
  \A s \in Sockets :
    received'[s] # received[s] => sockets[s].credential = "valid"

\* C14: a client that presents no token, an invalid token or an expired
\* token is not let into the rooms of the live channel: it receives no
\* participant:updated frame and no alert frame.
C14_TokenRequired == [][C14_Step]_vars

----------------------------------------------------------------------------
(* The incremental window of monitorRepository *)

\* C21: across any sequence of monitorRepository runs on one record, no
\* commit is in the analysed window of more than one run whose results
\* were saved, even when the since filter returns commits that an earlier
\* run analysed.
C21_NoCommitTwice == \A n \in 1 .. MaxRepoCommits : windows[n] <= 1

\* C25: every commit that exists in the repository is eventually in the
\* analysed window of a run whose results are saved, provided runs keep
\* happening; also a commit that appears while a run is in progress, and
\* one that appeared before a run whose listing answered 404.
C25_NoCommitMissed ==
  \A n \in 1 .. MaxRepoCommits : (Len(repo) >= n) ~> (windows[n] >= 1)

----------------------------------------------------------------------------
(* The agent's upload queue *)

\* C22: when every upload attempt fails, a single flush makes at most 3
\* upload tries, waiting 2 s, 4 s and 8 s after the failures, and then puts
\* the batch back into the queue: the try in flight is the first, second or
\* third of its flush, and the wait after the n-th failure is 2^n seconds.
C22_ThreeTries ==
  /\ flight.pc = "post" => retryCount + 1 <= 3
  /\ flight.pc = "sleep" =>
        /\ retryCount \in 1 .. 3
        /\ flight.wait = <<2000, 4000, 8000>>[retryCount]

NotUploaded(e) == e.timestamp \notin uploaded

\* C26: the EventQueue neither loses nor reorders events: at most one
\* upload is in flight (the flag is set exactly while a flush is between
\* its drain and its end), and the batch in flight followed by the queue
\* is, in order, the sequence of the pushed events without the events of
\* the batches whose upload succeeded; a failed batch is back at the head,
\* ahead of the events pushed during the upload.
C26_QueueOrder ==
  /\ uploading <=> flight.pc # "idle"
  /\ flight.batch \o queue = SelectSeq(pushOrder, NotUploaded)

\* A batch was uploaded, and a later batch failed all its tries and is back
\* in the queue, ahead of an event pushed after its drain.
C26_Witness ==
  /\ uploaded # {}
  /\ retryCount = maxRetries + 1 /\ ~uploading
  /\ Len(queue) = 2 /\ Len(pushOrder) = 3

\* C7: at-least-once ingest: every event pushed into the EventQueue is
\* eventually stored by the server, given that flush keeps being triggered
\* and the server is reachable again and again; no batch is retried for
\* ever at the head of the queue with later events waiting behind it.
C7_AtLeastOnce ==
  \A e \in AgentEvents : (e.timestamp \in pushed) ~> (e.timestamp \in persisted)

====
